---- MODULE Spec2Model ----
(***************************************************************************)
(* Model of src/decoder.py: class EncodingTable.  The constructor builds a *)
(* decode tree from the encoding index document, decode classifies one     *)
(* instruction word against the tree, matchVar decides one row constraint. *)
(*                                                                         *)
(* A Python string is a sequence of one-character strings.  Values whose   *)
(* type the code tests are tagged records: None is [type |-> "NoneType"],  *)
(* an optional text (td.text, c.text) or a name used as a target is        *)
(* [type |-> "str", s |-> characters].  An XML element is a record: attrib *)
(* is the sequence of its <<key, value>> attributes, every other field is  *)
(* the sequence of its children with that tag (findall); find is the first *)
(* of them, or None when there is none.                                    *)
(***************************************************************************)
EXTENDS Integers, Sequences, FiniteSets, TLC

VARIABLES document, tree, word, failing, result, pc, mvValues, mvTup, mvRet

vars == <<document, tree, word, failing, result, pc, mvValues, mvTup, mvRet>>

\* ------------------------------------------------------------------ bounds
MaxRows  == 2   \* data rows of a leaf table (rich leaf family)
MaxNodes == 2   \* child descriptors of the top grouping fragment
MaxSects == 2   \* iclass_sect elements of the document
WordLen  == 2   \* bits of an instruction word
MaxLen   == 4   \* characters of a field value / pattern given to matchVar

\* ------------------------------------------------------------ Python values
None == [type |-> "NoneType"]
Str(s) == [type |-> "str", s |-> s]
Error == [type |-> "Error"]
NotBuilt == [type |-> "NotBuilt"]

Min(S) == CHOOSE x \in S : \A y \in S : x <= y
Max(S) == CHOOSE x \in S : \A y \in S : x >= y

\* --------------------------------------------------------- string helpers
\* "!=" in s
containsNe(s) == \E i \in 1..(Len(s) - 1) : s[i] = "!" /\ s[i + 1] = "="

\* s.replace(" ", "")
replace(s) == SelectSeq(s, LAMBDA c : c # " ")

\* s.split("!="): the parts between successive occurrences, left to right
RECURSIVE split(_)
split(s) ==
    LET hits == {i \in 1..(Len(s) - 1) : s[i] = "!" /\ s[i + 1] = "="}
    IN  IF hits = {} THEN <<s>>
        ELSE LET i == Min(hits)
             IN  <<SubSeq(s, 1, i - 1)>> \o split(SubSeq(s, i + 2, Len(s)))

\* common.compareWithXs: position by position, a pattern character x matches
\* any value character, any other character must be equal
compareWithXs(pattern, value) ==
    /\ Len(pattern) = Len(value)
    /\ \A i \in 1..Len(pattern) : pattern[i] = "x" \/ pattern[i] = value[i]

\* ---------------------------------------------------------------- matchVar
\* mutant: the halves are joined with "or" instead of "and"
matchNeOr(enc, var1) ==
    LET splitEncoding == split(replace(enc))
    IN  IF Len(splitEncoding[1]) = 0
        THEN ~compareWithXs(splitEncoding[2], var1)
        ELSE LET splitPoint == Len(splitEncoding[1])
                 firstHalf  == SubSeq(var1, 1, Min({splitPoint, Len(var1)}))
                 secondHalf == SubSeq(var1, splitPoint + 1, Len(var1))
             IN  compareWithXs(splitEncoding[1], firstHalf)
                 \/ ~compareWithXs(splitEncoding[2], secondHalf)

\* lines 180-188: a negated pattern against the field value var[1]
matchNe(enc, var1) ==
    LET splitEncoding == split(replace(enc))
    IN  IF Len(splitEncoding[1]) = 0
        THEN ~compareWithXs(splitEncoding[2], var1)
        ELSE LET splitPoint == Len(splitEncoding[1])
                 firstHalf  == SubSeq(var1, 1, Min({splitPoint, Len(var1)}))
                 secondHalf == SubSeq(var1, splitPoint + 1, Len(var1))
             IN  compareWithXs(splitEncoding[1], firstHalf)
                 /\ ~compareWithXs(splitEncoding[2], secondHalf)

\* mutant: the None wildcard is tested before the field is looked up
matchVarNoneFirst(values, tup) ==
    LET hits == {i \in 1..Len(values) : values[i][1] = tup[1]}
    IN  IF tup[2] = None THEN TRUE
        ELSE IF hits = {} THEN FALSE
        ELSE LET var == values[Min(hits)]
             IN  IF containsNe(tup[2].s) THEN matchNe(tup[2].s, var[2])
                 ELSE compareWithXs(tup[2].s, var[2])

\* matchVar(vars, tup): the first variable named tup[0] decides; no such
\* variable gives False
matchVar(values, tup) ==
    LET hits == {i \in 1..Len(values) : values[i][1] = tup[1]}
    IN  IF hits = {} THEN FALSE
        ELSE LET var == values[Min(hits)]
             IN  IF tup[2] = None THEN TRUE
                 ELSE IF containsNe(tup[2].s) THEN matchNe(tup[2].s, var[2])
                 ELSE compareWithXs(tup[2].s, var[2])

\* ------------------------------------------------------------ XML elements
\* key in element.attrib
has(attrib, k) == \E i \in 1..Len(attrib) : attrib[i][1] = k

\* element.attrib[key]
get(attrib, k) == attrib[Min({i \in 1..Len(attrib) : attrib[i][1] = k})][2]

\* int(s) of a decimal numeral
int(s) == CHOOSE n \in 0..99 : ToString(n) = (IF Len(s) = 1 THEN s[1] ELSE s[1] \o s[2])

\* dict[key] = value: a present key keeps its position and takes the new value,
\* a new key goes last
DictSet(d, k, v) ==
    LET hits == {i \in 1..Len(d) : d[i].key = k}
    IN  IF hits = {} THEN Append(d, [key |-> k, value |-> v])
        ELSE [d EXCEPT ![Min(hits)] = [key |-> k, value |-> v]]

\* --------------------------------------------------------- collaborators
ARM_FILE_PATH == <<"A", "R", "M">>

\* common.InstructionMapping(variables)
InstructionMapping(variables) == [type |-> "InstructionMapping", variables |-> variables]

\* InstructionMapping.assignValues: every named field with the bits of the word
\* from its hibit down, width bits wide; bit WordLen-1 is the first character
assignValues(mapping, instruction) ==
    [i \in 1..Len(mapping.variables) |->
        LET v    == mapping.variables[i]
            from == Len(instruction) - v.value[1]
        IN  <<v.key, SubSeq(instruction, from, from + v.value[2] - 1)>>]

\* disassembler.InstructionPage(path)
InstructionPage(path) == [type |-> "InstructionPage", file |-> path]

\* InstructionPage.disassemble: a decoded form, or None where rendering fails
disassemble(page, instruction, fail) ==
    IF page.file \in fail THEN None
    ELSE [type |-> "DecodedForm", file |-> page.file, instruction |-> instruction]

\* ------------------------------------------------------ EncodingTable.__init__
\* lines 36-47: the regdiagram's named boxes, name -> [hibit, width]
RECURSIVE variablesOf(_, _)
variablesOf(boxes, variables) ==
    IF boxes = <<>> THEN variables
    ELSE LET box == Head(boxes)
         IN  IF has(box.attrib, "name")
             THEN LET varWidth == IF has(box.attrib, "width")
                                  THEN int(get(box.attrib, "width")) ELSE 1
                  IN  variablesOf(Tail(boxes),
                          DictSet(variables, get(box.attrib, "name"),
                                  <<int(get(box.attrib, "hibit")), varWidth>>))
             ELSE variablesOf(Tail(boxes), variables)

\* lines 60-63 and 82-85: the row's instruction page if it names a file, else
\* its encname; a row with neither raises
rowTarget(tr) ==
    IF has(tr.attrib, "iformfile")
    THEN InstructionPage(ARM_FILE_PATH \o <<"/">> \o get(tr.attrib, "iformfile"))
    ELSE IF has(tr.attrib, "encname") THEN Str(get(tr.attrib, "encname"))
    ELSE Error

\* lines 74-85: one dispatch entry per data row
RECURSIVE sectRows(_, _, _)
sectRows(trs, tableVars, entries) ==
    IF trs = <<>> THEN [type |-> "ok", entries |-> entries]
    ELSE LET tr  == Head(trs)
             tds == tr.td
         IN  IF Len(tds) < Len(tableVars) THEN Error
             ELSE LET mapping == [i \in 1..Len(tableVars) |-> <<tableVars[i], tds[i].text>>]
                      target  == rowTarget(tr)
                  IN  IF target.type = "Error" THEN Error
                      ELSE sectRows(Tail(trs), tableVars, DictSet(entries, mapping, target))

RECURSIVE EncodingTable(_, _, _)
RECURSIVE nodeRows(_, _, _)
RECURSIVE sectLoop(_, _, _, _, _, _)

\* mutant: the loop over the sections stops at the first hit
RECURSIVE sectLoopBreak(_, _, _, _, _, _)
sectLoopBreak(root, iclass_sects, iclass, mapping, entries, found) ==
    IF iclass_sects = <<>> \/ found
    THEN [type |-> "ok", entries |-> entries, found |-> found]
    ELSE LET sect == Head(iclass_sects)
         IN  IF get(sect.attrib, "id") = iclass
             THEN LET child == EncodingTable(root, sect, TRUE)
                  IN  IF child.type = "Error" THEN Error
                      ELSE sectLoopBreak(root, Tail(iclass_sects), iclass, mapping,
                                         DictSet(entries, mapping, child), TRUE)
             ELSE sectLoopBreak(root, Tail(iclass_sects), iclass, mapping, entries, found)

\* lines 104-110: every iclass_sect whose id is the reference is built and
\* stored under the child's row key
sectLoop(root, iclass_sects, iclass, mapping, entries, found) ==
    IF iclass_sects = <<>>
    THEN [type |-> "ok", entries |-> entries, found |-> found]
    ELSE LET sect == Head(iclass_sects)
         IN  IF get(sect.attrib, "id") = iclass
             THEN LET child == EncodingTable(root, sect, TRUE)
                  IN  IF child.type = "Error" THEN Error
                      ELSE sectLoop(root, Tail(iclass_sects), iclass, mapping,
                                    DictSet(entries, mapping, child), TRUE)
             ELSE sectLoop(root, Tail(iclass_sects), iclass, mapping, entries, found)

\* mutant: a reference with no section is skipped instead of kept as a name
unresolvedSkip(entries, mapping, iclass) == entries

\* lines 112-113: a reference no section answers is kept as a bare name
unresolved(entries, mapping, iclass) == DictSet(entries, mapping, Str(iclass))

\* lines 90-113: one dispatch entry per child descriptor
nodeRows(root, nodes, entries) ==
    IF nodes = <<>> THEN [type |-> "ok", entries |-> entries]
    ELSE LET node == Head(nodes)
         IN  IF node.decode = <<>> THEN Error
             ELSE LET boxes   == node.decode[1].box
                      mapping == [i \in 1..Len(boxes) |->
                                     <<get(boxes[i].attrib, "name"), boxes[i].c[1].text>>]
                  IN  IF has(node.attrib, "groupname")
                      THEN LET child == EncodingTable(root, node, FALSE)
                           IN  IF child.type = "Error" THEN Error
                               ELSE nodeRows(root, Tail(nodes), DictSet(entries, mapping, child))
                      ELSE IF has(node.attrib, "iclass")
                      THEN LET iclass == get(node.attrib, "iclass")
                               r == sectLoop(root, root.iclass_sect, iclass, mapping, entries, FALSE)
                           IN  IF r.type = "Error" THEN Error
                               ELSE IF ~r.found
                               THEN nodeRows(root, Tail(nodes), unresolved(r.entries, mapping, iclass))
                               ELSE nodeRows(root, Tail(nodes), r.entries)
                      ELSE nodeRows(root, Tail(nodes), entries)

\* the object the constructor leaves
Node(entries, instructionMapping, directFile) ==
    [type |-> "EncodingTable", entries |-> entries,
     instructionMapping |-> instructionMapping, directFile |-> directFile]

\* mutant: the single-entry case is tested on the data rows and the
\* constructor does not return after setting directFile
sectTableBoth(hierarchy, instructionMapping) ==
    IF hierarchy.instructiontable = <<>> THEN Error
    ELSE LET instructiontable == hierarchy.instructiontable[1]
             headers == instructiontable.thead[1].tr
             body    == instructiontable.tbody[1].tr
         IN  IF Len(headers) = 1
             THEN IF body = <<>> THEN Error
                  ELSE LET target == rowTarget(body[1])
                       IN  IF target.type = "Error" THEN Error
                           ELSE Node(<<>>, instructionMapping, target)
             ELSE IF Len(headers) < 2 THEN Error
             ELSE LET ths       == headers[2].th
                      tableVars == [i \in 1..Len(ths) |-> ths[i].text]
                      r         == sectRows(body, tableVars, <<>>)
                  IN  IF r.type = "Error" THEN Error
                      ELSE Node(r.entries, instructionMapping,
                                IF Len(body) = 1 THEN rowTarget(body[1]) ELSE None)

\* lines 50-85: an iclass_sect
sectTable(hierarchy, instructionMapping) ==
    IF hierarchy.instructiontable = <<>> THEN Error
    ELSE LET instructiontable == hierarchy.instructiontable[1]
             headers == instructiontable.thead[1].tr
             body    == instructiontable.tbody[1].tr
         IN  IF Len(headers) = 1
             THEN IF body = <<>> THEN Error
                  ELSE LET target == rowTarget(body[1])
                       IN  IF target.type = "Error" THEN Error
                           ELSE Node(<<>>, instructionMapping, target)
             ELSE IF Len(headers) < 2 THEN Error
             ELSE LET ths       == headers[2].th
                      tableVars == [i \in 1..Len(ths) |-> ths[i].text]
                      r         == sectRows(body, tableVars, <<>>)
                  IN  IF r.type = "Error" THEN Error
                      ELSE Node(r.entries, instructionMapping, None)

\* lines 87-113: a node of the hierarchy
nodeTable(root, hierarchy, instructionMapping) ==
    LET r == nodeRows(root, hierarchy.node, <<>>)
    IN  IF r.type = "Error" THEN Error
        ELSE Node(r.entries, instructionMapping, None)

\* EncodingTable(root, hierarchy, sect): the built node, or Error where the
\* constructor raises
EncodingTable(root, hierarchy, sect) ==
    IF hierarchy.regdiagram = <<>> THEN Error
    ELSE LET instructionMapping ==
                 InstructionMapping(variablesOf(hierarchy.regdiagram[1].box, <<>>))
         IN  IF sect THEN sectTable(hierarchy, instructionMapping)
             ELSE nodeTable(root, hierarchy, instructionMapping)

\* ------------------------------------------------------ EncodingTable.decode
\* lines 149-153: every tuple of the row is tested, the flag falls on a failure
RECURSIVE rowMatches(_, _, _)
rowMatches(values, row, matches) ==
    IF row = <<>> THEN matches
    ELSE IF ~matchVar(values, Head(row)) THEN rowMatches(values, Tail(row), FALSE)
    ELSE rowMatches(values, Tail(row), matches)

\* mutant: the rows are searched from the last to the first
RECURSIVE selectRowLast(_, _, _)
selectRowLast(entries, values, i) ==
    IF i > Len(entries) THEN 0
    ELSE LET later == selectRowLast(entries, values, i + 1)
         IN  IF later # 0 THEN later
             ELSE IF rowMatches(values, entries[i].key, TRUE) THEN i ELSE 0

\* mutant: a table with rows always selects one
RECURSIVE selectRowAlways(_, _, _)
selectRowAlways(entries, values, i) ==
    IF i > Len(entries) THEN Len(entries)
    ELSE IF rowMatches(values, entries[i].key, TRUE) THEN i
    ELSE selectRowAlways(entries, values, i + 1)

\* lines 148-154: the position in entries of the first row that matches, from
\* position i on; 0 when the loop ends without one
RECURSIVE selectRow(_, _, _)
selectRow(entries, values, i) ==
    IF i > Len(entries) THEN 0
    ELSE IF rowMatches(values, entries[i].key, TRUE) THEN i
    ELSE selectRow(entries, values, i + 1)

RECURSIVE decode(_, _, _)

\* lines 137-144 and 156-162: what the selected target gives
resolve(target, instruction, fail) ==
    IF target.type = "EncodingTable" THEN decode(target, instruction, fail)
    ELSE IF target.type = "InstructionPage"
    THEN [ret |-> disassemble(target, instruction, fail), path |-> <<>>]
    ELSE [ret |-> target, path |-> <<>>]

\* mutant: a selected row that gives None makes the loop go on to later rows
RECURSIVE decodeBacktrack(_, _, _)
RECURSIVE tryRows(_, _, _, _, _)
tryRows(self, values, instruction, fail, i) ==
    LET row == selectRow(self.entries, values, i)
    IN  IF row = 0
        THEN [ret |-> None, path |-> <<[node |-> self, values |-> values, row |-> 0]>>]
        ELSE LET target == self.entries[row].value
                 r == IF target.type = "EncodingTable"
                      THEN decodeBacktrack(target, instruction, fail)
                      ELSE resolve(target, instruction, fail)
             IN  IF r.ret = None /\ row < Len(self.entries)
                 THEN tryRows(self, values, instruction, fail, row + 1)
                 ELSE [ret |-> r.ret,
                       path |-> <<[node |-> self, values |-> values, row |-> row]>> \o r.path]

decodeBacktrack(self, instruction, fail) ==
    LET values == assignValues(self.instructionMapping, instruction)
    IN  IF self.directFile # None
        THEN LET r == resolve(self.directFile, instruction, fail)
             IN  [ret |-> r.ret,
                  path |-> <<[node |-> self, values |-> values, row |-> 0]>> \o r.path]
        ELSE tryRows(self, values, instruction, fail, 1)

\* decode(self, instruction): ret is the value returned; path lists, from self
\* down, the nodes decode ran on, the values extracted there and the position
\* in entries of the row selected there (0: none, or the directFile was taken)
decode(self, instruction, fail) ==
    LET values == assignValues(self.instructionMapping, instruction)
    IN  IF self.directFile # None
        THEN LET r == resolve(self.directFile, instruction, fail)
             IN  [ret |-> r.ret,
                  path |-> <<[node |-> self, values |-> values, row |-> 0]>> \o r.path]
        ELSE LET row == selectRow(self.entries, values, 1)
             IN  IF row = 0
                 THEN [ret |-> None,
                       path |-> <<[node |-> self, values |-> values, row |-> 0]>>]
                 ELSE LET r == resolve(self.entries[row].value, instruction, fail)
                      IN  [ret |-> r.ret,
                           path |-> <<[node |-> self, values |-> values, row |-> row]>> \o r.path]

\* ------------------------------------------------------------ the documents
Attr(k, v) == <<k, v>>
Text(s) == [text |-> Str(s)]
NoText == [text |-> None]

\* regdiagrams of a WordLen-bit word: a is bit 1 (width left out), b is bit 0
BoxA  == [attrib |-> <<Attr("name", <<"a">>), Attr("hibit", <<"1">>)>>]
BoxA1 == [attrib |-> <<Attr("name", <<"a">>), Attr("hibit", <<"1">>), Attr("width", <<"1">>)>>]
BoxB  == [attrib |-> <<Attr("name", <<"b">>), Attr("hibit", <<"0">>), Attr("width", <<"1">>)>>]
BoxU  == [attrib |-> <<Attr("hibit", <<"0">>)>>]
LayoutAB == [box |-> <<BoxA, BoxB>>]
LayoutA  == [box |-> <<BoxA1, BoxU>>]

\* data rows of the rich leaf family
Tr(tds, attrib) == [attrib |-> attrib, td |-> tds]
File1 == <<Attr("iformfile", <<"f", "1">>)>>
Enc1  == <<Attr("encname", <<"e", "1">>)>>
Enc2  == <<Attr("encname", <<"e", "2">>)>>
RowPool ==
    { Tr(<<Text(<<"1">>), Text(<<"x">>)>>, File1),
      Tr(<<Text(<<"1">>), Text(<<"x">>)>>, Enc1),
      Tr(<<Text(<<"x">>), NoText>>, Enc2),
      Tr(<<Text(<<"0">>), Text(<<"!", "=", "1">>)>>, Enc1),
      Tr(<<Text(<<"x">>)>>, Enc2),
      Tr(<<Text(<<"1">>), Text(<<"0">>), Text(<<"0">>)>>, File1),
      Tr(<<Text(<<"x">>), Text(<<"x">>)>>, <<>>) }

SeqsUpTo(S, n) == UNION {[1..k -> S] : k \in 0..n}

Th(names) == [th |-> [i \in 1..Len(names) |-> [text |-> names[i]]]]
HeadPool ==
    { <<Th(<<>>)>>,
      <<Th(<<>>), Th(<<<<"a">>>>)>>,
      <<Th(<<>>), Th(<<<<"a">>, <<"b">>>>)>> }

Table(headers, body) == [thead |-> <<[tr |-> headers]>>, tbody |-> <<[tr |-> body]>>]
Sect(id, regdiagram, instructiontable) ==
    [attrib |-> <<Attr("id", id)>>, regdiagram |-> regdiagram,
     instructiontable |-> instructiontable]

S1 == <<"s", "1">>
S3 == <<"s", "3">>

LeafPool ==
    { Sect(S1, <<l>>, <<Table(h, b)>>) :
          l \in {LayoutAB, LayoutA}, h \in HeadPool, b \in SeqsUpTo(RowPool, MaxRows) }
    \cup { Sect(S1, <<>>, <<Table(<<Th(<<>>)>>, <<Tr(<<>>, Enc1)>>)>>),
           Sect(S1, <<LayoutAB>>, <<>>) }

\* child descriptors
Box(name, c) == [attrib |-> <<Attr("name", name)>>, c |-> <<c>>]
Child(attrib, boxes, regdiagram, nodes) ==
    [attrib |-> attrib, decode |-> <<[box |-> boxes]>>, regdiagram |-> regdiagram,
     node |-> nodes]
Ref(boxes, iclass) == Child(<<Attr("iclass", iclass)>>, boxes, <<>>, <<>>)
A1 == <<Box(<<"a">>, Text(<<"1">>))>>
AX == <<Box(<<"a">>, Text(<<"x">>))>>

\* a document whose hierarchy hands every word to the one leaf table
LeafDocs ==
    { [hierarchy |-> Child(<<>>, <<>>, <<LayoutAB>>, <<Ref(<<>>, S1)>>),
       iclass_sect |-> <<s>>] : s \in LeafPool }

ChildPool ==
    { Ref(A1, S1),
      Ref(AX, S3),
      Child(<<Attr("groupname", <<"g", "1">>)>>, AX, <<LayoutA>>,
            <<Ref(<<Box(<<"b">>, NoText)>>, S3), Ref(<<Box(<<"a">>, NoText)>>, S3)>>),
      Child(<<>>, A1, <<>>, <<>>),
      Child(<<Attr("groupname", <<"g", "0">>)>>,
            <<Box(<<"a">>, Text(<<"!", "=", "1">>))>>, <<LayoutAB>>, <<>>) }

SectPool ==
    { Sect(S1, <<LayoutAB>>, <<Table(<<Th(<<>>)>>, <<Tr(<<>>, Enc1)>>)>>),
      Sect(S1, <<LayoutAB>>,
           <<Table(<<Th(<<>>), Th(<<<<"a">>>>)>>,
                   <<Tr(<<Text(<<"1">>)>>, File1), Tr(<<Text(<<"x">>)>>, Enc2)>>)>>),
      Sect(S1, <<LayoutAB>>,
           <<Table(<<Th(<<>>), Th(<<<<"b">>>>)>>, <<Tr(<<Text(<<"0">>)>>, <<>>)>>)>>) }

GroupDocs ==
    { [hierarchy |-> Child(<<>>, <<>>, <<LayoutAB>>, n), iclass_sect |-> s] :
          n \in SeqsUpTo(ChildPool, MaxNodes), s \in SeqsUpTo(SectPool, MaxSects) }

Documents == LeafDocs \cup GroupDocs
Words == [1..WordLen -> {"0", "1"}]
Files == {ARM_FILE_PATH \o <<"/", "f", "1">>}

\* ------------------------------------------------------------ state machine
NoResult == [ret |-> None, path |-> <<>>]

Init ==
    /\ document \in Documents
    /\ tree = NotBuilt
    /\ word = [i \in 1..WordLen |-> "0"]
    /\ failing = {}
    /\ result = NoResult
    /\ pc = "start"
    /\ mvValues = <<>>
    /\ mvTup = <<<<"a">>, None>>
    /\ mvRet = FALSE

\* the tree is built once from the document's hierarchy
Build ==
    /\ pc = "start"
    /\ tree' = EncodingTable(document, document.hierarchy, FALSE)
    /\ pc' = "built"
    /\ UNCHANGED <<document, word, failing, result, mvValues, mvTup, mvRet>>

\* one instruction word is decoded against the built tree; fail is the set
\* of instruction pages whose rendering of this word fails.  decode leaves
\* the tree as it is, so a further decode has nothing new to start from
Decode ==
    /\ pc = "built"
    /\ tree.type = "EncodingTable"
    /\ \E instruction \in Words, fail \in SUBSET Files :
          /\ word' = instruction
          /\ failing' = fail
          /\ result' = decode(tree, instruction, fail)
    /\ pc' = "decoded"
    /\ UNCHANGED <<document, tree, mvValues, mvTup, mvRet>>

Next == Build \/ Decode

Spec == Init /\ [][Next]_vars

\* matchVar alone, on one list of extracted values and one constraint
Bits(n) == [1..n -> {"0", "1"}]
Pats(n) == [1..n -> {"0", "1", "x"}]
MatchLens == {MaxLen - 2, MaxLen}
NePats ==
    UNION { UNION { { a \o <<"!", "=">> \o b : a \in Pats(k), b \in Pats(n - k) } :
                        k \in 0..n } : n \in MatchLens }
    \cup { a \o <<" ", "!", "=", " ">> \o b : a \in Pats(1), b \in Pats(MaxLen - 3) }
MatchPatterns ==
    {None} \cup { Str(p) : p \in UNION { Pats(n) : n \in MatchLens } \cup NePats }
MatchTups == { <<name, p>> : name \in {<<"a">>, <<"c">>}, p \in MatchPatterns }
MatchValues ==
    { << <<<<"a">>, v>> >> : v \in UNION { Bits(n) : n \in MatchLens } }
    \cup { << <<<<"b">>, <<"1">>>>, <<<<"a">>, v>> >> : v \in Bits(MaxLen - 2) }

InitMatch ==
    /\ document \in {d \in LeafDocs : d.iclass_sect[1].instructiontable = <<>>}
    /\ tree = NotBuilt
    /\ word = [i \in 1..WordLen |-> "0"]
    /\ failing = {}
    /\ result = NoResult
    /\ pc = "match"
    /\ mvValues \in MatchValues
    /\ mvTup \in MatchTups
    /\ mvRet = FALSE

MatchVar ==
    /\ pc = "match"
    /\ mvRet' = matchVar(mvValues, mvTup)
    /\ pc' = "matched"
    /\ UNCHANGED <<document, tree, word, failing, result, mvValues, mvTup>>

NextMatch == MatchVar

SpecMatch == InitMatch /\ [][NextMatch]_vars

\* ------------------------------------------------------- checked properties
Built == pc \in {"built", "decoded"} /\ tree.type = "EncodingTable"
JustBuilt == pc = "built" /\ tree.type = "EncodingTable"
Decoded == pc = "decoded"

\* the nodes of a built tree
RECURSIVE AllNodes(_)
AllNodes(t) ==
    {t} \cup UNION { AllNodes(t.entries[i].value) :
                        i \in {j \in 1..Len(t.entries) :
                                  t.entries[j].value.type = "EncodingTable"} }

\* the grouping fragments of the hierarchy
RECURSIVE GroupFrags(_)
GroupFrags(h) ==
    {h} \cup UNION { GroupFrags(h.node[i]) :
                        i \in {j \in 1..Len(h.node) : has(h.node[j].attrib, "groupname")} }

\* a leaf table's header rows, data rows and field names
Headers(s) == s.instructiontable[1].thead[1].tr
Body(s) == s.instructiontable[1].tbody[1].tr
FieldNames(s) ==
    IF Len(Headers(s)) >= 2
    THEN [i \in 1..Len(Headers(s)[2].th) |-> Headers(s)[2].th[i].text]
    ELSE <<>>
RowKey(s, i) == [j \in 1..Len(FieldNames(s)) |-> <<FieldNames(s)[j], Body(s)[i].td[j].text>>]

\* a child descriptor's row key, and whether it stores a target
ChildKey(c) ==
    [j \in 1..Len(c.decode[1].box) |->
        <<get(c.decode[1].box[j].attrib, "name"), c.decode[1].box[j].c[1].text>>]
Stores(c) == has(c.attrib, "groupname") \/ has(c.attrib, "iclass")
Matching(iclass) ==
    {i \in 1..Len(document.iclass_sect) : get(document.iclass_sect[i].attrib, "id") = iclass}
Unresolved(c) ==
    /\ ~has(c.attrib, "groupname")
    /\ has(c.attrib, "iclass")
    /\ Matching(get(c.attrib, "iclass")) = {}
LastOfKey(h, i) == \A j \in (i + 1)..Len(h.node) : Stores(h.node[j]) => ChildKey(h.node[j]) # ChildKey(h.node[i])

\* every constraint of a row key holds of the extracted values
Satisfied(values, key) == \A j \in 1..Len(key) : matchVar(values, key[j])
Extracted(values) == {values[i][1] : i \in 1..Len(values)}

\* the target a step of decode went on with (None: no row was selected)
Taken(st) ==
    IF st.node.directFile # None THEN st.node.directFile
    ELSE IF st.row # 0 THEN st.node.entries[st.row].value
    ELSE None
Stored(n, key) == {n.entries[e].value : e \in {x \in 1..Len(n.entries) : n.entries[x].key = key}}
Steps == {result.path[k] : k \in 1..Len(result.path)}

\* the document has none of the defects that make the constructor raise
SectOK(s) ==
    /\ s.regdiagram # <<>>
    /\ s.instructiontable # <<>>
    /\ Len(Headers(s)) >= 1
    /\ Len(Headers(s)) = 1 => Body(s) # <<>> /\ rowTarget(Body(s)[1]).type # "Error"
    /\ Len(Headers(s)) >= 2 =>
          \A i \in 1..Len(Body(s)) :
              /\ Len(Body(s)[i].td) >= Len(FieldNames(s))
              /\ rowTarget(Body(s)[i]).type # "Error"
RECURSIVE FragOK(_)
FragOK(h) ==
    /\ h.regdiagram # <<>>
    /\ \A i \in 1..Len(h.node) :
          LET c == h.node[i]
          IN  /\ c.decode # <<>>
              /\ has(c.attrib, "groupname") => FragOK(c)
              /\ ~has(c.attrib, "groupname") /\ has(c.attrib, "iclass") =>
                    \A m \in Matching(get(c.attrib, "iclass")) : SectOK(document.iclass_sect[m])

\* C1 (as amended): in a leaf table with a field-name header row, decode goes
\* on with the target stored under the row key of the earliest data row whose
\* constraints all hold: that row's own target when no later row repeats its
\* key, the target of the last row repeating it otherwise; a table with a
\* single header row goes on with its first data row's target
ThmC1 ==
    Decoded =>
        \A st \in Steps : \A m \in 1..Len(document.iclass_sect) :
            LET s == document.iclass_sect[m]
                M == {i \in 1..Len(Body(s)) : Satisfied(st.values, RowKey(s, i))}
            IN  st.node = EncodingTable(document, s, TRUE) =>
                    IF Len(Headers(s)) = 1
                    THEN Taken(st) = rowTarget(Body(s)[1])
                    ELSE M # {} =>
                            LET last == Max({j \in 1..Len(Body(s)) :
                                                RowKey(s, j) = RowKey(s, Min(M))})
                            IN  Taken(st) = rowTarget(Body(s)[last])

\* two rows with different keys and different targets both match, and decode
\* went on with the earlier row's target
WitC1 ==
    /\ Decoded
    /\ \E st \in Steps : \E m \in 1..Len(document.iclass_sect) :
          LET s == document.iclass_sect[m]
          IN  /\ st.node = EncodingTable(document, s, TRUE)
              /\ Len(Headers(s)) >= 2
              /\ \E i, j \in 1..Len(Body(s)) :
                    /\ i < j
                    /\ RowKey(s, i) # RowKey(s, j)
                    /\ Satisfied(st.values, RowKey(s, i))
                    /\ Satisfied(st.values, RowKey(s, j))
                    /\ rowTarget(Body(s)[i]) # rowTarget(Body(s)[j])
                    /\ Taken(st) = rowTarget(Body(s)[i])

\* C1 (as claimed): whenever an earlier row R1 and a later row R2 both match,
\* whatever their keys, decode goes on with R1's target
CexC1 ==
    Decoded =>
        \A st \in Steps : \A m \in 1..Len(document.iclass_sect) :
            LET s == document.iclass_sect[m]
            IN  st.node = EncodingTable(document, s, TRUE) =>
                    \A i, j \in 1..Len(Body(s)) :
                        /\ i < j
                        /\ Satisfied(st.values, RowKey(s, i))
                        /\ Satisfied(st.values, RowKey(s, j))
                        => Taken(st) = rowTarget(Body(s)[i])

\* C2 (as claimed): the node of a leaf table has a directFile and no entries
\* exactly when the table body has one data row; with one data row decode goes
\* on with that row's target whatever the word; with two or more every data
\* row's key is in entries and directFile is unset
CexC2 ==
    Built =>
        \A n \in AllNodes(tree) : \A m \in 1..Len(document.iclass_sect) :
            LET s == document.iclass_sect[m]
            IN  n = EncodingTable(document, s, TRUE) =>
                    /\ (n.directFile # None /\ n.entries = <<>>) <=> Len(Body(s)) = 1
                    /\ Len(Body(s)) = 1 =>
                          \A st \in Steps : st.node = n => Taken(st) = rowTarget(Body(s)[1])
                    /\ Len(Body(s)) >= 2 =>
                          /\ n.directFile = None
                          /\ \A i \in 1..Len(Body(s)) : Stored(n, RowKey(s, i)) # {}

\* C3: at a node without directFile, decode returns None there exactly when no
\* row of entries has all its constraints matched (an empty entries included);
\* when some row has, a matching row is selected
ThmC3 ==
    Decoded =>
        \A k \in 1..Len(result.path) :
            LET st  == result.path[k]
                ent == st.node.entries
                any == \E r \in 1..Len(ent) : Satisfied(st.values, ent[r].key)
            IN  st.node.directFile = None =>
                    /\ ~any => st.row = 0 /\ k = Len(result.path) /\ result.ret = None
                    /\ any => st.row # 0 /\ Satisfied(st.values, ent[st.row].key)

\* decode ended at a node with rows, none of which matched
WitC3 ==
    /\ Decoded
    /\ result.ret = None
    /\ LET st == result.path[Len(result.path)]
       IN  /\ st.node.directFile = None
           /\ st.node.entries # <<>>
           /\ st.row = 0
           /\ \A r \in 1..Len(st.node.entries) : ~Satisfied(st.values, st.node.entries[r].key)

\* the two halves of a negated pattern, read off the position of its "!"
NeLeft(t) == LET u == SelectSeq(t, LAMBDA c : c # " ")
             IN  SubSeq(u, 1, Min({i \in 1..Len(u) : u[i] = "!"}) - 1)
NeRight(t) == LET u == SelectSeq(t, LAMBDA c : c # " ")
              IN  SubSeq(u, Min({i \in 1..Len(u) : u[i] = "!"}) + 2, Len(u))
FieldValue(values, name) == values[Min({i \in 1..Len(values) : values[i][1] = name})][2]

\* C4: a pattern A!=B on the value v of its field succeeds iff v does not
\* match B when A is empty, and iff the first Len(A) characters of v match A
\* and the rest do not match B otherwise; !=1x fails on 10 and succeeds on 00,
\* 01!=1x fails on 0110
ThmC4 ==
    (pc = "matched" /\ mvTup[1] \in Extracted(mvValues) /\ mvTup[2] # None) =>
        LET t == mvTup[2].s
            v == FieldValue(mvValues, mvTup[1])
        IN  /\ (\E i \in 1..Len(t) : t[i] = "!") =>
                  LET A == NeLeft(t)
                      B == NeRight(t)
                      k == Len(A)
                  IN  mvRet = IF k = 0 THEN ~compareWithXs(B, v)
                              ELSE /\ compareWithXs(A, SubSeq(v, 1, Min({k, Len(v)})))
                                   /\ ~compareWithXs(B, SubSeq(v, k + 1, Len(v)))
            /\ t = <<"!", "=", "1", "x">> /\ v = <<"1", "0">> => mvRet = FALSE
            /\ t = <<"!", "=", "1", "x">> /\ v = <<"0", "0">> => mvRet = TRUE
            /\ t = <<"0", "1", "!", "=", "1", "x">> /\ v = <<"0", "1", "1", "0">> => mvRet = FALSE

\* 01!=1x was matched against 0110 and failed
WitC4 ==
    /\ pc = "matched"
    /\ mvTup = <<<<"a">>, Str(<<"0", "1", "!", "=", "1", "x">>)>>
    /\ FieldValue(mvValues, <<"a">>) = <<"0", "1", "1", "0">>
    /\ mvRet = FALSE

\* C5: a constraint on a field that is not among the extracted values fails,
\* whatever its pattern, and the row holding it is not selected; a None
\* pattern on an extracted field succeeds
ThmC5 ==
    Decoded =>
        \A st \in Steps : \A r \in 1..Len(st.node.entries) :
            LET key == st.node.entries[r].key
            IN  (st.row = 0 \/ r <= st.row) =>
                    \A j \in 1..Len(key) :
                        /\ key[j][1] \notin Extracted(st.values) =>
                              ~matchVar(st.values, key[j]) /\ st.row # r
                        /\ key[j][1] \in Extracted(st.values) /\ key[j][2] = None =>
                              matchVar(st.values, key[j])

\* decode tried a row with a None pattern on a field the node does not extract
WitC5 ==
    /\ Decoded
    /\ \E st \in Steps : \E r \in 1..Len(st.node.entries) :
          /\ st.row = 0 \/ r < st.row
          /\ \E j \in 1..Len(st.node.entries[r].key) :
                /\ st.node.entries[r].key[j][1] \notin Extracted(st.values)
                /\ st.node.entries[r].key[j][2] = None

\* C6 (as amended): an unresolved leaf-table reference never makes the build
\* fail; unless a later child of the same fragment that stores a target has
\* the same row key, entries maps the child's row key to the reference
\* identifier as a bare name, and a decode that selects that row returns it
ThmC6 ==
    /\ pc = "built" => (tree.type = "EncodingTable" <=> FragOK(document.hierarchy))
    /\ JustBuilt =>
          \A h \in GroupFrags(document.hierarchy) :
              LET n == EncodingTable(document, h, FALSE)
              IN  n \in AllNodes(tree) =>
                      \A i \in 1..Len(h.node) :
                          (Unresolved(h.node[i]) /\ LastOfKey(h, i)) =>
                              Stored(n, ChildKey(h.node[i]))
                                  = {Str(get(h.node[i].attrib, "iclass"))}
    /\ Decoded =>
          \A k \in 1..Len(result.path) : \A h \in GroupFrags(document.hierarchy) :
              LET st == result.path[k]
              IN  (st.row # 0 /\ st.node = EncodingTable(document, h, FALSE)) =>
                      \A i \in 1..Len(h.node) :
                          (Unresolved(h.node[i]) /\ LastOfKey(h, i)
                              /\ st.node.entries[st.row].key = ChildKey(h.node[i])) =>
                              /\ k = Len(result.path)
                              /\ result.ret = Str(get(h.node[i].attrib, "iclass"))

\* decode selected the row of an unresolved reference and returned its name
WitC6 ==
    /\ Decoded
    /\ \E h \in GroupFrags(document.hierarchy) : \E i \in 1..Len(h.node) :
          /\ Unresolved(h.node[i])
          /\ result.ret = Str(get(h.node[i].attrib, "iclass"))
          /\ LET st == result.path[Len(result.path)]
             IN  /\ st.node = EncodingTable(document, h, FALSE)
                 /\ st.row # 0
                 /\ st.node.entries[st.row].key = ChildKey(h.node[i])

\* C6 (as claimed): entries maps the row key of every child with an unresolved
\* reference to the reference identifier
CexC6 ==
    Built =>
        \A h \in GroupFrags(document.hierarchy) : \A i \in 1..Len(h.node) :
            LET n == EncodingTable(document, h, FALSE)
            IN  (n \in AllNodes(tree) /\ Unresolved(h.node[i])) =>
                    Stored(n, ChildKey(h.node[i])) = {Str(get(h.node[i].attrib, "iclass"))}

\* the defects C7 names: a child with neither a group identifier nor a
\* leaf-table reference, a data row with fewer or more cells than field names,
\* a data row with neither attribute, a missing regdiagram or table
SectStrict(s) ==
    /\ SectOK(s)
    /\ Len(Headers(s)) >= 2 =>
          \A i \in 1..Len(Body(s)) : Len(Body(s)[i].td) = Len(FieldNames(s))
RECURSIVE FragStrict(_)
FragStrict(h) ==
    /\ h.regdiagram # <<>>
    /\ \A i \in 1..Len(h.node) :
          LET c == h.node[i]
          IN  /\ Stores(c)
              /\ has(c.attrib, "groupname") => FragStrict(c)
              /\ ~has(c.attrib, "groupname") /\ has(c.attrib, "iclass") =>
                    \A m \in Matching(get(c.attrib, "iclass")) : SectStrict(document.iclass_sect[m])

\* C7 (as claimed): the constructor returns a node only for a document none
\* of whose built fragments has such a defect
CexC7 == Built => FragStrict(document.hierarchy)

\* C8 (as amended): no built node has both a directFile and entries; a node
\* has neither exactly when it is built from a grouping fragment none of whose
\* children has a group identifier or a leaf-table reference, or from a leaf
\* table with a field-name header row and no data row
ThmC8 ==
    JustBuilt =>
        \A n \in AllNodes(tree) :
            /\ ~(n.directFile # None /\ n.entries # <<>>)
            /\ \A h \in GroupFrags(document.hierarchy) :
                  n = EncodingTable(document, h, FALSE) =>
                      /\ n.directFile = None
                      /\ n.entries = <<>> <=> \A i \in 1..Len(h.node) : ~Stores(h.node[i])
            /\ \A m \in 1..Len(document.iclass_sect) :
                  LET s == document.iclass_sect[m]
                  IN  n = EncodingTable(document, s, TRUE) =>
                          IF Len(Headers(s)) = 1
                          THEN n.directFile # None /\ n.entries = <<>>
                          ELSE n.directFile = None /\ (n.entries = <<>> <=> Body(s) = <<>>)

\* a built tree holds a node with a directFile, a node with entries and a
\* node with neither
WitC8 ==
    /\ JustBuilt
    /\ \E n \in AllNodes(tree) : n.directFile # None /\ n.entries = <<>>
    /\ \E n \in AllNodes(tree) : n.directFile = None /\ n.entries # <<>>
    /\ \E n \in AllNodes(tree) : n.directFile = None /\ n.entries = <<>>

\* C8 (as claimed): every built node has exactly one of a directFile and a
\* non-empty entries
CexC8 ==
    Built => \A n \in AllNodes(tree) : (n.directFile # None) # (n.entries # <<>>)

\* C9 (as amended): when several sections have the id a child refers to, every
\* one of them is built and the target left under the child's row key is the
\* node of the last of them in document order (unless a later child with the
\* same row key replaces it)
ThmC9 ==
    JustBuilt =>
        \A h \in GroupFrags(document.hierarchy) :
            LET n == EncodingTable(document, h, FALSE)
            IN  n \in AllNodes(tree) =>
                    \A i \in 1..Len(h.node) :
                        LET c == h.node[i]
                            M == Matching(get(c.attrib, "iclass"))
                        IN  (~has(c.attrib, "groupname") /\ has(c.attrib, "iclass")
                                /\ Cardinality(M) >= 2 /\ LastOfKey(h, i)) =>
                                /\ \A m \in M :
                                      EncodingTable(document, document.iclass_sect[m], TRUE).type
                                          # "Error"
                                /\ Stored(n, ChildKey(c)) =
                                      {EncodingTable(document, document.iclass_sect[Max(M)], TRUE)}

\* a child refers to an id that two sections with different tables have
WitC9 ==
    /\ JustBuilt
    /\ \E i \in 1..Len(document.hierarchy.node) :
          LET c == document.hierarchy.node[i]
              M == Matching(get(c.attrib, "iclass"))
          IN  /\ ~has(c.attrib, "groupname") /\ has(c.attrib, "iclass")
              /\ Cardinality(M) >= 2
              /\ LastOfKey(document.hierarchy, i)
              /\ EncodingTable(document, document.iclass_sect[Min(M)], TRUE)
                    # EncodingTable(document, document.iclass_sect[Max(M)], TRUE)
              /\ Stored(tree, ChildKey(c)) =
                    {EncodingTable(document, document.iclass_sect[Max(M)], TRUE)}

\* C9 (as claimed): the target left under the child's row key is the node of
\* the first matching section
CexC9 ==
    Built =>
        \A h \in GroupFrags(document.hierarchy) : \A i \in 1..Len(h.node) :
            LET n == EncodingTable(document, h, FALSE)
                c == h.node[i]
                M == Matching(get(c.attrib, "iclass"))
            IN  (n \in AllNodes(tree) /\ ~has(c.attrib, "groupname") /\ has(c.attrib, "iclass")
                    /\ Cardinality(M) >= 2 /\ LastOfKey(h, i)) =>
                    Stored(n, ChildKey(c)) =
                        {EncodingTable(document, document.iclass_sect[Min(M)], TRUE)}

\* C10: the row decode selects at a node is the first that matches, and its
\* target alone gives the result: a child node is decoded next and its result
\* returned, a form's rendering (None on failure) or a bare name is returned at
\* once; no later row is tried
ThmC10 ==
    Decoded =>
        \A k \in 1..Len(result.path) :
            LET st  == result.path[k]
                ent == st.node.entries
            IN  /\ st.row # 0 =>
                      /\ Satisfied(st.values, ent[st.row].key)
                      /\ \A r \in 1..(st.row - 1) : ~Satisfied(st.values, ent[r].key)
                /\ Taken(st).type = "EncodingTable" =>
                      k < Len(result.path) /\ result.path[k + 1].node = Taken(st)
                /\ Taken(st).type = "InstructionPage" =>
                      /\ k = Len(result.path)
                      /\ result.ret = IF Taken(st).file \in failing THEN None
                                      ELSE [type |-> "DecodedForm", file |-> Taken(st).file,
                                            instruction |-> word]
                /\ Taken(st).type \in {"str", "NoneType"} =>
                      k = Len(result.path) /\ result.ret = Taken(st)

\* decode returned None through a selected row although a later row of the
\* same node matches and holds a bare name
WitC10 ==
    /\ Decoded
    /\ result.ret = None
    /\ \E st \in Steps :
          /\ st.row # 0
          /\ \E r \in (st.row + 1)..Len(st.node.entries) :
                /\ Satisfied(st.values, st.node.entries[r].key)
                /\ st.node.entries[r].value.type = "str"

====
